---- MODULE Spec2Model ----
(***************************************************************************)
(* Model of the in-memory key-value HTTP server of src/main.go.  The file  *)
(* holds two revisions of the same program: the first (lines 1-158) uses   *)
(* method-qualified mux patterns and a self-locking incRequests, the       *)
(* second (lines 160-357) checks methods in the handlers and calls an      *)
(* unlocked incRequests inside each handler's critical section.  The       *)
(* variable rev selects the revision; every statement that touches the     *)
(* mutex, the data map or the requests counter is one step.                *)
(***************************************************************************)
EXTENDS Integers, Sequences, FiniteSets, TLC

\* ------------------------------------------------------------------ bounds
\* Number of requests the listener accepts in one run of the model.
MaxOps == 2
\* Number of requests the listener accepts in a run that shuts down.
MaxShutdownOps == 1
\* Status lines the Reporter may emit after shutdownCh is closed.
MaxLate == 2

\* ------------------------------------------------------------ input domains
Handlers == {"h1", "h2"}
Revisions == {1, 2}
Keys == {"x", "y"}
\* Keys in the order encoding/json writes them (sorted).
KeyOrder == <<"x", "y">>

Free == "free"
Reporter == "reporter"

EmptyMap == [k \in {} |-> ""]
\* s.data[k] = v on a map made afresh: the other keys are lost.
MapPutFresh(m, k, v) == [x \in {k} |-> v]
\* s.data[k] = v
MapPut(m, k, v) == [x \in (DOMAIN m) \cup {k} |-> IF x = k THEN v ELSE m[x]]
\* delete(s.data, key) left out.
MapDeleteNothing(m, k) == m
\* delete(s.data, key)
MapDelete(m, k) == [x \in (DOMAIN m) \ {k} |-> m[x]]
MapLen(m) == Cardinality(DOMAIN m)

\* A request body: malformed JSON, the JSON null, or a JSON object given as
\* its member list.
NoBody == [kind |-> "none", pairs |-> << >>]
Malformed == [kind |-> "malformed", pairs |-> << >>]
Null == [kind |-> "null", pairs |-> << >>]
Object(ps) == [kind |-> "object", pairs |-> ps]
Bodies ==
  { Malformed, Null, Object(<< >>), Object(<< <<"x", "2">> >>),
    Object(<< <<"x", "1">>, <<"y", "2">> >>) }

\* json.NewDecoder(r.Body).Decode(&payload) into a map[string]string: a later
\* member overwrites an earlier one, null leaves the nil map, anything else
\* is an error.
RECURSIVE DecodeObject(_)
DecodeObject(ps) ==
  IF ps = << >> THEN EmptyMap
  ELSE LET n == Len(ps)
       IN MapPut(DecodeObject(SubSeq(ps, 1, n - 1)), ps[n][1], ps[n][2])

Decode(body) ==
  IF body.kind = "object" THEN [err |-> FALSE, payload |-> DecodeObject(body.pairs)]
  ELSE IF body.kind = "null" THEN [err |-> FALSE, payload |-> EmptyMap]
  ELSE [err |-> TRUE, payload |-> EmptyMap]

\* json.NewEncoder(w).Encode(map): the members in sorted key order.
Encode(m) ==
  LET F[i \in 0..Len(KeyOrder)] ==
        IF i = 0 THEN << >>
        ELSE IF KeyOrder[i] \in DOMAIN m
             THEN Append(F[i - 1], <<KeyOrder[i], m[KeyOrder[i]]>>)
             ELSE F[i - 1]
  IN F[Len(KeyOrder)]

\* The request paths of each revision, as their segments after the leading
\* slash ("/data/" has an empty last segment).
Prefix(r) == IF r = 1 THEN << >> ELSE <<"api">>
DataPath(r) == Prefix(r) \o <<"data">>
StatsPath(r) == Prefix(r) \o <<"stats">>
KeyPath(r, k) == Prefix(r) \o <<"data", k>>

Req(m, p, b) == [method |-> m, path |-> p, body |-> b]

\* The requests the model sends: every entrypoint under its own method and
\* under another one, every kind of body, present, absent and empty keys.
Requests(r) ==
  { Req("POST", DataPath(r), b) : b \in Bodies }
  \cup { Req("DELETE", KeyPath(r, k), NoBody) : k \in Keys \cup {""} }
  \cup { Req("GET", DataPath(r), NoBody), Req("DELETE", DataPath(r), NoBody),
         Req("GET", KeyPath(r, "x"), NoBody),
         Req("GET", StatsPath(r), NoBody), Req("HEAD", StatsPath(r), NoBody),
         Req("POST", StatsPath(r), NoBody) }

\* ------------------------------------------------------------------ routing
Reject(code, text) == [fn |-> "none", code |-> code, body |-> text]
Dispatch(fn) == [fn |-> fn, code |-> 0, body |-> ""]

\* First revision: mux.HandleFunc with method-qualified patterns.  A GET
\* pattern also matches HEAD; a path that some pattern matches under another
\* method is answered 405 by the mux; {key} does not match an empty segment.
Route1(q) ==
  IF q.path = DataPath(1)
  THEN IF q.method = "POST" THEN Dispatch("post")
       ELSE IF q.method \in {"GET", "HEAD"} THEN Dispatch("get")
       ELSE Reject(405, "Method Not Allowed")
  ELSE IF Len(q.path) = 2 /\ q.path[1] = "data" /\ q.path[2] # ""
  THEN IF q.method = "DELETE" THEN Dispatch("delete")
       ELSE Reject(405, "Method Not Allowed")
  ELSE IF q.path = StatsPath(1)
  THEN IF q.method \in {"GET", "HEAD"} THEN Dispatch("stats")
       ELSE Reject(405, "Method Not Allowed")
  ELSE Reject(404, "404 page not found")

\* Second revision: /api/data is dispatched on the method by a closure,
\* /api/data/ (a subtree) and /api/stats go to their handlers whatever the
\* method.
Route2(q) ==
  IF q.path = DataPath(2)
  THEN IF q.method = "POST" THEN Dispatch("post")
       ELSE IF q.method = "GET" THEN Dispatch("get")
       ELSE Reject(405, "Method not allowed")
  ELSE IF Len(q.path) >= 3 /\ q.path[1] = "api" /\ q.path[2] = "data"
  THEN Dispatch("delete")
  ELSE IF q.path = StatsPath(2) THEN Dispatch("stats")
  ELSE Reject(404, "404 page not found")

Route(r, q) == IF r = 1 THEN Route1(q) ELSE Route2(q)

\* The method each handler of the second revision insists on.
MethodOf(fn) ==
  CASE fn = "post" -> "POST"
    [] fn = "get" -> "GET"
    [] fn = "delete" -> "DELETE"
    [] fn = "stats" -> "GET"

\* strings.Split(r.URL.Path, "/") of "/api/data/x": the empty string before
\* the leading slash, then the segments.
SplitPath(path) == <<"">> \o path

\* ----------------------------------------------------------------- programs
\* The statements of each handler in source order.  s.requests++ is a load
\* and a store (inc_load, inc_store); the first revision's incRequests wraps
\* them in its own Lock and Unlock (inc_lock, inc_unlock), the second
\* revision's runs them under the caller's lock.
Prog(r, fn) ==
  IF r = 1
  THEN CASE fn = "post" ->
              <<"inc_lock", "inc_load", "inc_store", "inc_unlock",
                "decode", "lock", "merge", "unlock", "respond">>
         [] fn = "get" ->
              <<"inc_lock", "inc_load", "inc_store", "inc_unlock",
                "lock", "copy", "unlock", "respond">>
         [] fn = "delete" ->
              <<"inc_lock", "inc_load", "inc_store", "inc_unlock",
                "key", "lock", "lookup", "unlock", "respond">>
         [] fn = "stats" ->
              <<"inc_lock", "inc_load", "inc_store", "inc_unlock",
                "lock", "read_req", "read_size", "unlock", "respond">>
  ELSE CASE fn = "post" ->
              <<"method", "decode", "lock", "merge", "inc_load", "inc_store", "unlock", "respond">>
         [] fn = "get" ->
              <<"method", "lock", "inc_load", "inc_store", "copy", "unlock", "respond">>
         [] fn = "delete" ->
              <<"method", "key", "lock", "inc_load", "inc_store", "lookup", "unlock", "respond">>
         [] fn = "stats" ->
              <<"method", "lock", "inc_load", "inc_store",
                "read_req", "read_size", "unlock", "respond">>

NextPc(r, fn, pc) ==
  LET p == Prog(r, fn)
      i == CHOOSE j \in 1..Len(p) : p[j] = pc
  IN p[i + 1]

\* The Reporter's tick branch: the first revision prints after Unlock, the
\* second inside the critical section.
RProg(r) ==
  IF r = 1 THEN <<"lock", "read_req", "read_size", "unlock", "print", "select">>
  ELSE <<"lock", "read_req", "read_size", "print", "unlock", "select">>

RNextPc(r, pc) ==
  LET p == RProg(r)
      i == CHOOSE j \in 1..Len(p) : p[j] = pc
  IN p[i + 1]

\* -------------------------------------------------------------------- state
VARIABLES
  rev,        \* which revision of main.go runs
  mu,         \* Server.mu: Free or the unit that holds it
  data,       \* Server.data
  requests,   \* Server.requests
  shutdownCh, \* Server.shutdownCh: "open" or "closed"
  frame,      \* per handler goroutine: its position, request and locals
  rpc,        \* position of startBackgroundWorker
  rlocal,     \* the Reporter's req and size; late, the status lines it has
              \* emitted since shutdownCh was closed; pending, whether a tick
              \* waited in ticker.C when shutdownCh was closed
  tick,       \* a tick waits in ticker.C
  stop,       \* an interrupt waits in the stop channel
  mpc,        \* position of the shutdown path
  srv,        \* the http.Server: "serving" or "closed"
  exited,     \* main has returned
  started,    \* requests accepted by the listener so far
  completed   \* Store operations whose handler has returned

store == <<mu, data, requests>>
reporter == <<rpc, rlocal, tick>>
lifecycle == <<shutdownCh, stop, mpc, srv, exited>>
vars == <<rev, store, frame, reporter, lifecycle, started, completed>>

NoRequest == [method |-> "", path |-> << >>, body |-> NoBody]
NoResponse == [code |-> 0, body |-> ""]

\* A handler goroutine between requests.  Beside the handler's locals the
\* frame keeps three records of what it did for the current request: incs,
\* the number of times it incremented requests; effect, whether its Store
\* operation has read or changed data; atLock, data as it was when the
\* handler took the lock for that operation.
IdleFrame ==
  [fn |-> "none", pc |-> "idle", r |-> NoRequest, payload |-> EmptyMap,
   todo |-> {}, key |-> "", exists |-> FALSE, copyData |-> EmptyMap,
   tmp |-> 0, req |-> 0, size |-> 0, w |-> NoResponse,
   incs |-> 0, effect |-> FALSE, atLock |-> EmptyMap]

Init ==
  /\ rev \in Revisions
  /\ mu = Free
  /\ data = EmptyMap
  /\ requests = 0
  /\ frame = [h \in Handlers |-> IdleFrame]
  /\ shutdownCh = "open"
  /\ rpc = "select"
  /\ rlocal = [req |-> 0, size |-> 0, late |-> 0, pending |-> FALSE]
  /\ tick = FALSE
  /\ stop = FALSE
  /\ mpc = "wait"
  /\ srv = "serving"
  /\ exited = FALSE
  /\ started = 0
  /\ completed = 0

\* ------------------------------------------------------------------ helpers
\* Goroutines run only while the process lives.
At(h, label) == ~exited /\ frame[h].pc = label
RAt(label) == ~exited /\ rpc = label
MAt(label) == ~exited /\ mpc = label
Goto(h) == NextPc(rev, frame[h].fn, frame[h].pc)
Finish(f, code, body) == [f EXCEPT !.pc = "done", !.w = [code |-> code, body |-> body]]

\* A Lock that never waits.
CanLockAlways(m) == TRUE
\* sync.Mutex: Lock proceeds only when nobody holds the mutex.
CanLock(m) == m = Free

\* s.requests++ left out: the value is stored back as loaded.
PlusPlusNothing(n) == n
\* The value s.requests++ stores, from the value it loaded.
PlusPlus(n) == n + 1

\* ----------------------------------------------------------------- handlers
\* The listener accepts request q and the mux routes it: either the mux
\* answers by itself or handler goroutine h enters the routed handler.
ServeReq(h, q) ==
  /\ At(h, "idle")
  /\ srv = "serving"
  /\ LET rt == Route(rev, q)
     IN frame' = [frame EXCEPT ![h] =
          IF rt.fn = "none"
          THEN Finish([IdleFrame EXCEPT !.r = q], rt.code, rt.body)
          ELSE [IdleFrame EXCEPT !.fn = rt.fn, !.pc = Prog(rev, rt.fn)[1], !.r = q]]
  /\ started' = started + 1
  /\ UNCHANGED <<rev, store, reporter, lifecycle, completed>>

Serve(h) ==
  /\ started < MaxOps
  /\ \E q \in Requests(rev) : ServeReq(h, q)

\* Second revision: if r.Method != http.MethodX { 405; return }
CheckMethod(h) ==
  /\ At(h, "method")
  /\ frame' = [frame EXCEPT ![h] =
       IF frame[h].r.method # MethodOf(frame[h].fn)
       THEN Finish(frame[h], 405, "Method not allowed")
       ELSE [frame[h] EXCEPT !.pc = Goto(h)]]
  /\ UNCHANGED <<rev, store, reporter, lifecycle, started, completed>>

\* json.NewDecoder(r.Body).Decode(&payload); on error 400 and return.
DecodeBody(h) ==
  /\ At(h, "decode")
  /\ LET d == Decode(frame[h].r.body)
         f == frame[h]
     IN frame' = [frame EXCEPT ![h] =
          IF d.err
          THEN Finish(f, 400, IF rev = 1 THEN "failed json" ELSE "Invalid JSON")
          ELSE [f EXCEPT !.payload = d.payload, !.todo = DOMAIN d.payload,
                         !.pc = Goto(h)]]
  /\ UNCHANGED <<rev, store, reporter, lifecycle, started, completed>>

\* First revision: key := r.PathValue("key"); if key == "" { 404; return }.
\* Second revision: parts := strings.Split(path, "/");
\* if len(parts) < 4 || parts[3] == "" { 400; return }; key := parts[3].
PathKey(h) ==
  /\ At(h, "key")
  /\ LET path == frame[h].r.path
         parts == SplitPath(path)
     IN frame' = [frame EXCEPT ![h] =
          IF rev = 1
          THEN IF path[2] = ""
               THEN Finish(frame[h], 404, "missing key")
               ELSE [frame[h] EXCEPT !.key = path[2], !.pc = Goto(h)]
          ELSE IF Len(parts) < 4 \/ parts[4] = ""
               THEN Finish(frame[h], 400, "Key not specified")
               ELSE [frame[h] EXCEPT !.key = parts[4], !.pc = Goto(h)]]
  /\ UNCHANGED <<rev, store, reporter, lifecycle, started, completed>>

\* s.mu.Lock(), in a handler or in the first revision's incRequests.
Lock(h) ==
  /\ (At(h, "inc_lock") \/ At(h, "lock"))
  /\ CanLock(mu)
  /\ mu' = h
  /\ frame' = [frame EXCEPT ![h].pc = Goto(h),
                            ![h].atLock = IF At(h, "lock") THEN data ELSE @]
  /\ UNCHANGED <<rev, data, requests, reporter, lifecycle, started, completed>>

\* s.mu.Unlock()
Unlock(h) ==
  /\ (At(h, "inc_unlock") \/ At(h, "unlock"))
  /\ mu' = Free
  /\ frame' = [frame EXCEPT ![h].pc = Goto(h)]
  /\ UNCHANGED <<rev, data, requests, reporter, lifecycle, started, completed>>

\* s.requests++, the load
IncLoad(h) ==
  /\ At(h, "inc_load")
  /\ frame' = [frame EXCEPT ![h].tmp = requests, ![h].pc = Goto(h)]
  /\ UNCHANGED <<rev, store, reporter, lifecycle, started, completed>>

\* s.requests++, the store
IncStore(h) ==
  /\ At(h, "inc_store")
  /\ requests' = PlusPlus(frame[h].tmp)
  /\ frame' = [frame EXCEPT ![h].tmp = 0, ![h].incs = @ + 1, ![h].pc = Goto(h)]
  /\ UNCHANGED <<rev, mu, data, reporter, lifecycle, started, completed>>

\* for k, v := range payload { s.data[k] = v }: one iteration, in any order,
\* or the end of the loop.
Merge(h) ==
  /\ At(h, "merge")
  /\ IF frame[h].todo = {}
     THEN /\ frame' = [frame EXCEPT ![h].effect = TRUE, ![h].pc = Goto(h)]
          /\ data' = data
     ELSE \E k \in frame[h].todo :
            /\ data' = MapPut(data, k, frame[h].payload[k])
            /\ frame' = [frame EXCEPT ![h].todo = @ \ {k}]
  /\ UNCHANGED <<rev, mu, requests, reporter, lifecycle, started, completed>>

\* copyData := make(map); for k, v := range s.data { copyData[k] = v }
Copy(h) ==
  /\ At(h, "copy")
  /\ LET rest == (DOMAIN data) \ (DOMAIN frame[h].copyData)
     IN IF rest = {}
        THEN frame' = [frame EXCEPT ![h].effect = TRUE, ![h].pc = Goto(h)]
        ELSE \E k \in rest :
               frame' = [frame EXCEPT ![h].copyData = MapPut(@, k, data[k])]
  /\ UNCHANGED <<rev, store, reporter, lifecycle, started, completed>>

\* _, exists := s.data[key]; if exists { delete(s.data, key) }
Lookup(h) ==
  /\ At(h, "lookup")
  /\ LET exists == frame[h].key \in DOMAIN data
     IN /\ data' = IF exists THEN MapDelete(data, frame[h].key) ELSE data
        /\ frame' = [frame EXCEPT ![h].exists = exists, ![h].effect = TRUE,
                                  ![h].pc = Goto(h)]
  /\ UNCHANGED <<rev, mu, requests, reporter, lifecycle, started, completed>>

\* req := s.requests (the "total_requests" member in the second revision)
ReadRequests(h) ==
  /\ At(h, "read_req")
  /\ frame' = [frame EXCEPT ![h].req = requests, ![h].pc = Goto(h)]
  /\ UNCHANGED <<rev, store, reporter, lifecycle, started, completed>>

\* size := len(s.data)
ReadSize(h) ==
  /\ At(h, "read_size")
  /\ frame' = [frame EXCEPT ![h].size = MapLen(data), ![h].effect = TRUE,
                            ![h].pc = Goto(h)]
  /\ UNCHANGED <<rev, store, reporter, lifecycle, started, completed>>

\* The handlers with GET /data encoding s.data itself after the Unlock.
ResponseLive(r, f) ==
  CASE f.fn = "post" -> [code |-> 200, body |-> << <<"status", "ok">> >>]
    [] f.fn = "get" -> [code |-> 200, body |-> Encode(data)]
    [] f.fn = "delete" ->
         IF f.exists THEN [code |-> 200, body |-> << <<"deleted", f.key>> >>]
         ELSE [code |-> 404, body |-> IF r = 1 THEN "key not found" ELSE "Key not found"]
    [] f.fn = "stats" ->
         [code |-> 200,
          body |-> << <<"db_size", f.size>>,
                      <<IF r = 1 THEN "requests" ELSE "total_requests", f.req>> >>]

\* The body each handler writes once its Store operation is over.
Response(r, f) ==
  CASE f.fn = "post" -> [code |-> 200, body |-> << <<"status", "ok">> >>]
    [] f.fn = "get" -> [code |-> 200, body |-> Encode(f.copyData)]
    [] f.fn = "delete" ->
         IF f.exists THEN [code |-> 200, body |-> << <<"deleted", f.key>> >>]
         ELSE [code |-> 404, body |-> IF r = 1 THEN "key not found" ELSE "Key not found"]
    [] f.fn = "stats" ->
         [code |-> 200,
          body |-> << <<"db_size", f.size>>,
                      <<IF r = 1 THEN "requests" ELSE "total_requests", f.req>> >>]

Respond(h) ==
  /\ At(h, "respond")
  /\ frame' = [frame EXCEPT ![h] = [frame[h] EXCEPT !.pc = "done",
                                                   !.w = Response(rev, frame[h])]]
  /\ UNCHANGED <<rev, store, reporter, lifecycle, started, completed>>

\* The handler returns and the goroutine is free for the next request.
Return(h) ==
  /\ At(h, "done")
  /\ completed' = completed + (IF frame[h].effect THEN 1 ELSE 0)
  /\ frame' = [frame EXCEPT ![h] = IdleFrame]
  /\ UNCHANGED <<rev, store, reporter, lifecycle, started>>

\* ----------------------------------------------------------------- Reporter
\* The ticker puts a tick in its one-place channel (and drops it when the
\* place is taken); the deferred ticker.Stop ends that.
Tick ==
  /\ ~exited
  /\ rpc # "stopped"
  /\ ~tick
  /\ tick' = TRUE
  /\ UNCHANGED <<rev, store, frame, rpc, rlocal, lifecycle, started, completed>>

\* case <-ticker.C:
ReporterTick ==
  /\ RAt("select")
  /\ tick
  /\ rlocal.late < MaxLate
  /\ tick' = FALSE
  /\ rpc' = RProg(rev)[1]
  /\ UNCHANGED <<rev, store, frame, rlocal, lifecycle, started, completed>>

\* case <-s.shutdownCh: fmt.Println("Worker stopped"); return
ReporterStop ==
  /\ RAt("select")
  /\ shutdownCh = "closed"
  /\ rpc' = "stopped"
  /\ UNCHANGED <<rev, store, frame, rlocal, tick, lifecycle, started, completed>>

ReporterLock ==
  /\ RAt("lock")
  /\ CanLock(mu)
  /\ mu' = Reporter
  /\ rpc' = RNextPc(rev, rpc)
  /\ UNCHANGED <<rev, data, requests, frame, rlocal, tick, lifecycle, started, completed>>

ReporterReadRequests ==
  /\ RAt("read_req")
  /\ rlocal' = [rlocal EXCEPT !.req = requests]
  /\ rpc' = RNextPc(rev, rpc)
  /\ UNCHANGED <<rev, store, frame, tick, lifecycle, started, completed>>

ReporterReadSize ==
  /\ RAt("read_size")
  /\ rlocal' = [rlocal EXCEPT !.size = MapLen(data)]
  /\ rpc' = RNextPc(rev, rpc)
  /\ UNCHANGED <<rev, store, frame, tick, lifecycle, started, completed>>

ReporterUnlock ==
  /\ RAt("unlock")
  /\ mu' = Free
  /\ rpc' = RNextPc(rev, rpc)
  /\ UNCHANGED <<rev, data, requests, frame, rlocal, tick, lifecycle, started, completed>>

\* fmt.Printf("Current requests: %d, Database size: %d\n", req, size)
ReporterPrint ==
  /\ RAt("print")
  /\ rpc' = RNextPc(rev, rpc)
  /\ rlocal' = [rlocal EXCEPT
                  !.req = IF rpc' = "select" THEN 0 ELSE @,
                  !.size = IF rpc' = "select" THEN 0 ELSE @,
                  !.late = IF shutdownCh = "closed" THEN @ + 1 ELSE @]
  /\ UNCHANGED <<rev, store, frame, tick, lifecycle, started, completed>>

\* ---------------------------------------------------------------- lifecycle
AllIdle == \A h \in Handlers : frame[h].pc = "idle"

\* os.Interrupt is delivered: signal.Notify puts it in the one-place stop
\* channel, or drops it when the place is taken.
Interrupt ==
  /\ ~exited
  /\ ~stop
  /\ stop' = TRUE
  /\ UNCHANGED <<rev, store, frame, reporter, shutdownCh, mpc, srv, exited, started, completed>>

\* <-stop
AwaitStop ==
  /\ MAt("wait")
  /\ stop
  /\ stop' = FALSE
  /\ mpc' = "close"
  /\ UNCHANGED <<rev, store, frame, reporter, shutdownCh, srv, exited, started, completed>>

\* The shutdown path without its close(server.shutdownCh).
CloseLeftOut ==
  /\ MAt("close")
  /\ mpc' = "shutdown"
  /\ UNCHANGED <<rev, store, frame, reporter, shutdownCh, stop, srv, exited, started, completed>>

\* close(server.shutdownCh)
CloseShutdownCh ==
  /\ MAt("close")
  /\ shutdownCh' = "closed"
  /\ mpc' = "shutdown"
  /\ rlocal' = [rlocal EXCEPT !.pending = tick]
  /\ UNCHANGED <<rev, store, frame, rpc, tick, stop, srv, exited, started, completed>>

\* srv.Shutdown(ctx) closes the listeners: no request is accepted any more
\* and ListenAndServe returns http.ErrServerClosed.
ShutdownBegin ==
  /\ MAt("shutdown")
  /\ srv' = "closed"
  /\ mpc' = "drain"
  /\ UNCHANGED <<rev, store, frame, reporter, shutdownCh, stop, exited, started, completed>>

\* The shutdown path in a loop over the signals: after the drain it waits
\* for the next interrupt.
DrainDoneThenWait ==
  /\ MAt("drain")
  /\ AllIdle
  /\ mpc' = "wait"
  /\ UNCHANGED <<rev, store, frame, reporter, shutdownCh, stop, srv, exited, started, completed>>

\* srv.Shutdown(ctx) returns: every connection is idle.
DrainDone ==
  /\ MAt("drain")
  /\ AllIdle
  /\ mpc' = "return"
  /\ UNCHANGED <<rev, store, frame, reporter, shutdownCh, stop, srv, exited, started, completed>>

\* context.Background() in place of the 5 s deadline: Shutdown never gives up.
DrainWithoutTimeout ==
  /\ MAt("drain")
  /\ FALSE
  /\ UNCHANGED vars

\* srv.Shutdown(ctx) returns: the context's 5 s deadline has passed.
DrainTimeout ==
  /\ MAt("drain")
  /\ ~AllIdle
  /\ mpc' = "return"
  /\ UNCHANGED <<rev, store, frame, reporter, shutdownCh, stop, srv, exited, started, completed>>

\* main returns and the process ends.  In the first revision main waits in
\* ListenAndServe while a goroutine runs the shutdown path; in the second
\* main runs the shutdown path itself.
Exit ==
  /\ ~exited
  /\ IF rev = 1 THEN srv = "closed" ELSE mpc = "return"
  /\ exited' = TRUE
  /\ UNCHANGED <<rev, store, frame, reporter, shutdownCh, stop, mpc, srv, started, completed>>

\* ------------------------------------------------------------ specification
\* The statements of a handler goroutine after the listener's accept.
Handle(h) ==
  \/ CheckMethod(h)
  \/ DecodeBody(h)
  \/ PathKey(h)
  \/ Lock(h)
  \/ Unlock(h)
  \/ IncLoad(h)
  \/ IncStore(h)
  \/ Merge(h)
  \/ Copy(h)
  \/ Lookup(h)
  \/ ReadRequests(h)
  \/ ReadSize(h)
  \/ Respond(h)
  \/ Return(h)

\* The Reporter's tick branch.
Report ==
  \/ Tick
  \/ ReporterTick
  \/ ReporterLock
  \/ ReporterReadRequests
  \/ ReporterReadSize
  \/ ReporterUnlock
  \/ ReporterPrint

\* The server while it runs: handlers and the Reporter share the Store.
Next ==
  \/ \E h \in Handlers : Serve(h) \/ Handle(h)
  \/ Report

Spec == Init /\ [][Next]_vars

\* The whole program: the running server and the shutdown path.  What the
\* shutdown path does depends on whether requests are in flight, not on which
\* ones, so the listener is sent one request for each handler.
ShutdownRequests(r) ==
  { Req("POST", DataPath(r), Object(<< <<"x", "2">> >>)),
    Req("GET", DataPath(r), NoBody),
    Req("DELETE", KeyPath(r, "x"), NoBody),
    Req("GET", StatsPath(r), NoBody) }

ServeShutdown(h) ==
  /\ started < MaxShutdownOps
  /\ \E q \in ShutdownRequests(rev) : ServeReq(h, q)

NextShutdown ==
  \/ \E h \in Handlers : ServeShutdown(h) \/ Handle(h)
  \/ Report
  \/ ReporterStop
  \/ Interrupt
  \/ AwaitStop
  \/ CloseShutdownCh
  \/ ShutdownBegin
  \/ DrainDone
  \/ DrainTimeout
  \/ Exit

SpecShutdown == Init /\ [][NextShutdown]_vars

\* The same program with a client that sends its next request once the
\* previous one is answered: at most one request is in flight at the interrupt.
ServeInTurn(h) ==
  /\ AllIdle
  /\ ServeShutdown(h)

NextInTurn ==
  \/ \E h \in Handlers : ServeInTurn(h) \/ Handle(h)
  \/ Report
  \/ ReporterStop
  \/ Interrupt
  \/ AwaitStop
  \/ CloseShutdownCh
  \/ ShutdownBegin
  \/ DrainDone
  \/ DrainTimeout
  \/ Exit

\* The shutdown path is a goroutine the scheduler keeps running, Shutdown
\* returns at the drain's end or at the deadline, and main returns once
\* ListenAndServe or Shutdown has.  Nothing is assumed of the handlers, the
\* Reporter or the sender of interrupts.
ShutdownFairness ==
  /\ WF_vars(AwaitStop)
  /\ WF_vars(CloseShutdownCh)
  /\ WF_vars(ShutdownBegin)
  /\ WF_vars(DrainDone \/ DrainTimeout)
  /\ WF_vars(Exit)

SpecShutdownFair == Init /\ [][NextInTurn]_vars /\ ShutdownFairness

\* ------------------------------------------------------------ lock fairness
\* Handlers and the Reporter contending for the mutex, with one request for
\* each handler.  Every goroutine that can run is run in the end, and a
\* goroutine waiting in Lock gets the mutex if it is released again and
\* again (sync.Mutex hands a starving waiter the mutex).  Nothing is assumed
\* of the clients or of the ticker.
ServeEach(h) ==
  /\ started < MaxOps
  /\ \E q \in ShutdownRequests(rev) : ServeReq(h, q)

NextLock ==
  \/ \E h \in Handlers : ServeEach(h) \/ Handle(h)
  \/ Report

Statement(h) ==
  \/ CheckMethod(h) \/ DecodeBody(h) \/ PathKey(h)
  \/ Unlock(h) \/ IncLoad(h) \/ IncStore(h)
  \/ Merge(h) \/ Copy(h) \/ Lookup(h)
  \/ ReadRequests(h) \/ ReadSize(h)
  \/ Respond(h) \/ Return(h)

ReporterStatement ==
  \/ ReporterReadRequests \/ ReporterReadSize
  \/ ReporterUnlock \/ ReporterPrint

LockFairness ==
  /\ \A h \in Handlers : WF_vars(Statement(h)) /\ SF_vars(Lock(h))
  /\ WF_vars(ReporterStatement)
  /\ SF_vars(ReporterLock)

SpecLockFair == Init /\ [][NextLock]_vars /\ LockFairness

\* ----------------------------------------------------------------- scenario
\* The end-to-end scenario, one request after the other on a fresh store.
Script(r) ==
  << Req("POST", DataPath(r), Object(<< <<"x", "1">>, <<"y", "2">> >>)),
     Req("GET", DataPath(r), NoBody),
     Req("DELETE", KeyPath(r, "x"), NoBody),
     Req("GET", DataPath(r), NoBody),
     Req("GET", StatsPath(r), NoBody) >>

ScenarioServe(h) ==
  /\ AllIdle
  /\ started < Len(Script(rev))
  /\ ServeReq(h, Script(rev)[started + 1])

ScenarioNext ==
  \/ \E h \in Handlers : ScenarioServe(h) \/ Handle(h)
  \/ Report

Scenario == Init /\ [][ScenarioNext]_vars

\* ---------------------------------------------------------------- Put twice
\* Put(p) twice in a row: one Put brings the store to some state and returns;
\* then handler h1 serves a Put of any payload and, once it has answered,
\* handler h2 serves the same request again.  After the two the server goes
\* on with any request.
ValidPosts(r) ==
  { Req("POST", DataPath(r), b) : b \in {b \in Bodies : ~Decode(b).err} }

PutSetup ==
  /\ AllIdle /\ started = 0
  /\ \E q \in ValidPosts(rev) : ServeReq("h2", q)

PutFirst ==
  /\ AllIdle /\ started = 1
  /\ \E q \in ValidPosts(rev) : ServeReq("h1", q)

PutAgain ==
  /\ started = 2
  /\ frame["h1"].pc = "done" /\ frame["h1"].fn = "post"
  /\ ServeReq("h2", frame["h1"].r)

PutAfter ==
  /\ AllIdle /\ started = 3
  /\ \E q \in Requests(rev) : ServeReq("h1", q)

PutTwiceNext ==
  \/ PutSetup
  \/ PutFirst
  \/ PutAgain
  \/ PutAfter
  \/ \E h \in Handlers : Handle(h)
  \/ Report

PutTwice == Init /\ [][PutTwiceNext]_vars

\* ------------------------------------------------------------------- claims
\* What the claims call an accepted operation: the request reaches a handler
\* under that handler's method, its body decodes and its key is not empty.
Accepted(r, q) ==
  LET rt == Route(r, q)
  IN /\ rt.fn # "none"
     /\ r = 2 => q.method = MethodOf(rt.fn)
     /\ rt.fn = "post" => ~Decode(q.body).err
     /\ rt.fn = "delete" => q.path[Len(q.path)] # ""

\* A request with malformed input: a POST of a body that does not decode, a
\* DELETE with no key in the path.
IsMalformed(r, q) ==
  \/ q.method = "POST" /\ q.path = DataPath(r) /\ Decode(q.body).err
  \/ q.method = "DELETE" /\ q.path = KeyPath(r, "")

\* The methods of the operations each entrypoint stands for.
EntryMethods(r, path) ==
  IF path = DataPath(r) THEN {"POST", "GET"}
  ELSE IF path = StatsPath(r) THEN {"GET"}
  ELSE {"DELETE"}

InFlight(h) == frame[h].pc # "idle"

\* C1: once every request has completed and each was an accepted Store
\* operation, the counter equals the number of operations, whatever the
\* interleaving of the handlers.
C1_CounterCountsOperations ==
  (AllIdle /\ completed = started) => requests = started

\* C1: two accepted operations have completed.
C1_Witness ==
  AllIdle /\ started = 2 /\ completed = 2 /\ requests = 2

\* C2: whenever a handler running an accepted operation does not hold the
\* lock, it has incremented the counter exactly if its operation has read or
\* changed entries: no other unit can see one without the other.
C2_OneCriticalSection ==
  \A h \in Handlers :
    (InFlight(h) /\ Accepted(rev, frame[h].r) /\ mu # h)
      => ((frame[h].incs > 0) <=> frame[h].effect)

\* C3: at the end of the critical section in which Stats read them, the
\* pair it holds is the Store's counter and size, the counter includes this
\* call's own increment, and that pair is what the response carries.
C3_StatsPairConsistent ==
  \A h \in Handlers :
    frame[h].fn = "stats" =>
      /\ frame[h].pc = "unlock" =>
            /\ frame[h].req = requests
            /\ frame[h].size = MapLen(data)
            /\ frame[h].incs = 1
            /\ frame[h].req >= 1
      /\ (frame[h].pc = "done" /\ frame[h].effect) =>
            /\ frame[h].w.code = 200
            /\ frame[h].w.body[1][2] = frame[h].size
            /\ frame[h].w.body[2][2] = frame[h].req

\* C3: Stats holds its pair while a Put waits for the lock.
C3_Witness ==
  \E h, g \in Handlers :
    /\ frame[h].fn = "stats" /\ frame[h].pc = "unlock"
    /\ frame[g].fn = "post" /\ frame[g].pc = "lock"
    /\ frame[h].size = 0

\* C4: while a Put has merged some but not all of its keys, no GetAll is
\* copying entries, no Stats is about to take the size and the Reporter is
\* not about to take the size: no observer samples a part of a Put.
MidMerge(h) ==
  /\ frame[h].fn = "post" /\ frame[h].pc = "merge"
  /\ frame[h].todo # {} /\ frame[h].todo # DOMAIN frame[h].payload

C4_PutAtomic ==
  \A h \in Handlers :
    MidMerge(h) =>
      /\ \A o \in Handlers \ {h} : frame[o].pc \notin {"copy", "read_size"}
      /\ rpc # "read_size"

\* C4: a Put on the empty store has merged one of its two keys while a
\* GetAll or Stats and the Reporter wait for the lock.
C4_Witness ==
  \E h, o \in Handlers :
    /\ MidMerge(h) /\ frame[h].atLock = EmptyMap
    /\ frame[o].fn \in {"get", "stats"} /\ frame[o].pc = "lock"
    /\ rpc = "lock"

\* C5: a request rejected for malformed input has incremented the counter
\* zero times and has neither read nor changed entries.
C5_MalformedNeverReachesStore ==
  \A h \in Handlers :
    (frame[h].pc = "done" /\ IsMalformed(rev, frame[h].r))
      => (frame[h].incs = 0 /\ ~frame[h].effect)

\* C6: a request whose method is not the one of its entrypoint's operation
\* is answered 405, has incremented the counter zero times and has neither
\* read nor changed entries.
C6_WrongMethodRejected ==
  \A h \in Handlers :
    (frame[h].pc = "done" /\ frame[h].r.method \notin EntryMethods(rev, frame[h].r.path))
      => (frame[h].w.code = 405 /\ frame[h].incs = 0 /\ ~frame[h].effect)

\* C7: at the end of Delete's critical section exists says whether the key
\* was in entries when the lock was taken, the key is gone and every other
\* key is as it was; when the handler has answered, it has incremented the
\* counter once and the answer is 404 exactly if exists is false.
C7_DeleteContract ==
  \A h \in Handlers :
    frame[h].fn = "delete" =>
      /\ frame[h].pc = "unlock" =>
            /\ frame[h].exists = (frame[h].key \in DOMAIN frame[h].atLock)
            /\ frame[h].key \notin DOMAIN data
            /\ DOMAIN data = (DOMAIN frame[h].atLock) \ {frame[h].key}
            /\ \A k \in DOMAIN data : data[k] = frame[h].atLock[k]
      /\ (frame[h].pc = "done" /\ frame[h].effect) =>
            /\ frame[h].key # ""
            /\ frame[h].incs = 1
            /\ frame[h].w.code = (IF frame[h].exists THEN 200 ELSE 404)

\* C7: a Delete has removed a key that existed and another key remains.
C7_Witness ==
  \E h \in Handlers :
    /\ frame[h].fn = "delete" /\ frame[h].pc = "unlock"
    /\ frame[h].exists /\ DOMAIN data # {}

\* C8: at the end of Put's critical section entries holds every key of the
\* payload with the payload's value and every other key as it was when the
\* lock was taken, and nothing else; when the handler has answered, it has
\* incremented the counter once, whatever the number of keys.
C8_PutContract ==
  \A h \in Handlers :
    frame[h].fn = "post" =>
      /\ frame[h].pc = "unlock" =>
            /\ DOMAIN data = (DOMAIN frame[h].atLock) \cup (DOMAIN frame[h].payload)
            /\ \A k \in DOMAIN data :
                 data[k] = IF k \in DOMAIN frame[h].payload
                           THEN frame[h].payload[k] ELSE frame[h].atLock[k]
      /\ (frame[h].pc = "done" /\ frame[h].effect) =>
            /\ frame[h].incs = 1
            /\ frame[h].w.code = 200

\* C8: a Put has overwritten x and left y, which it does not name.
C8_Witness ==
  \E h \in Handlers :
    /\ frame[h].fn = "post" /\ frame[h].pc = "unlock"
    /\ "x" \in DOMAIN frame[h].payload /\ "x" \in DOMAIN frame[h].atLock
    /\ frame[h].payload["x"] # frame[h].atLock["x"]
    /\ "y" \in (DOMAIN frame[h].atLock) \ (DOMAIN frame[h].payload)

\* The answers of the scenario, request by request, with Stats reporting
\* the given count and a size of 1.
ScenarioAnswers(count) ==
  \A h \in Handlers :
    frame[h].pc = "done" =>
      /\ started = 1 => frame[h].w.code = 200
      /\ started = 2 => frame[h].w = [code |-> 200, body |-> << <<"x", "1">>, <<"y", "2">> >>]
      /\ started = 3 => (frame[h].exists /\ frame[h].w.code = 200)
      /\ started = 4 => frame[h].w = [code |-> 200, body |-> << <<"y", "2">> >>]
      /\ started = 5 =>
            /\ frame[h].w.code = 200
            /\ frame[h].req = count /\ frame[h].size = 1
            /\ frame[h].w.body[1] = <<"db_size", 1>>
            /\ frame[h].w.body[2][2] = count

\* C9 as stated: Put({x:1,y:2}), GetAll, Delete(x), GetAll, Stats answer
\* {x:1,y:2}, existed, {y:2} and Stats with requests = 4 and db_size = 1.
C9_ScenarioCountFour == ScenarioAnswers(4)

\* C9 amended: the same scenario answers {x:1,y:2}, existed, {y:2} and Stats
\* with requests = 5 (the five operations, Stats included) and db_size = 1.
C9_ScenarioCountFive == ScenarioAnswers(5)

\* C9: the Stats call that ends the scenario has answered.
C9_Witness ==
  \E h \in Handlers :
    frame[h].pc = "done" /\ started = 5 /\ frame[h].fn = "stats" /\ data # EmptyMap

\* C10: the copy GetAll holds once its loop is over, and the body it
\* answers with, is entries as it was when the lock was taken, whatever
\* other handlers do to the Store afterwards.
C10_SnapshotIsolated ==
  \A h \in Handlers :
    frame[h].fn = "get" =>
      /\ frame[h].pc = "unlock" => (frame[h].copyData = data /\ data = frame[h].atLock)
      /\ frame[h].pc = "respond" => frame[h].copyData = frame[h].atLock
      /\ frame[h].pc = "done" => frame[h].w = [code |-> 200, body |-> Encode(frame[h].atLock)]

\* C10: a GetAll has answered with a snapshot the Store has since left.
C10_Witness ==
  \E h \in Handlers :
    /\ frame[h].fn = "get" /\ frame[h].pc = "done"
    /\ frame[h].w.body # Encode(data)

\* The payload merged over a map: what one Put of the payload leaves.
Merged(m, payload) ==
  [k \in (DOMAIN m) \cup (DOMAIN payload) |->
     IF k \in DOMAIN payload THEN payload[k] ELSE m[k]]

\* C11: when Put(p) runs twice in a row, the second Put leaves entries as the
\* first left them, which is the payload merged over the entries before the
\* first, and the counter, 1 before the two, is 3 after them.
C11_PutTwiceIdempotent ==
  /\ (started = 1 /\ AllIdle) => requests = 1
  /\ (started = 3 /\ frame["h2"].effect) =>
        /\ data = frame["h2"].atLock
        /\ frame["h1"].pc = "done" =>
              data = Merged(frame["h1"].atLock, frame["h1"].payload)
  /\ (started = 3 /\ frame["h2"].pc = "done") => requests = 1 + 2

\* C11: the second Put of a payload that overwrites x and adds y has answered.
C11_Witness ==
  /\ started = 3 /\ frame["h2"].pc = "done" /\ frame["h1"].pc = "done"
  /\ frame["h1"].atLock = MapPut(EmptyMap, "x", "2")
  /\ DOMAIN frame["h2"].payload = {"x", "y"}
  /\ data # frame["h1"].atLock

\* C12: once shutdownCh is closed the Reporter stops no later than its next
\* tick: it emits at most one status line after the close, and that one
\* only when a tick waited in ticker.C at the close.
C12_AtMostOneLateLine ==
  /\ rlocal.late <= 1
  /\ rlocal.late = 1 => rlocal.pending

\* C13: when the process has exited after a shutdown, the Reporter has seen
\* the closed shutdownCh, printed its notice and returned.
C13_ReporterStopsBeforeExit == exited => rpc = "stopped"

\* The statements of the shutdown path in source order.
MainRank(pc) ==
  CASE pc = "wait" -> 0
    [] pc = "close" -> 1
    [] pc = "shutdown" -> 2
    [] pc = "drain" -> 3
    [] pc = "return" -> 4

\* C14: whatever interrupts arrive, the statement that closes shutdownCh runs
\* only on the open channel, the statement that starts the drain runs only
\* on the serving server, a closed channel and a closed server stay closed,
\* and the shutdown path never steps back towards waiting for a signal.
C14_ShutdownOnce ==
  [][ /\ (mpc = "close" /\ mpc' # "close") => (shutdownCh = "open" /\ shutdownCh' = "closed")
      /\ (mpc = "shutdown" /\ mpc' # "shutdown") => (srv = "serving" /\ srv' = "closed")
      /\ shutdownCh = "closed" => shutdownCh' = "closed"
      /\ srv = "closed" => srv' = "closed"
      /\ MainRank(mpc') >= MainRank(mpc) ]_vars

\* C14: another interrupt waits in the stop channel after the drain of the
\* shutdown under way has ended.
C14_Witness ==
  stop /\ mpc = "return" /\ shutdownCh = "closed" /\ srv = "closed" /\ ~exited

\* C15: once an interrupt has been delivered the process reaches its exit,
\* also when a request in flight never completes.
C15_ShutdownReachesExit == stop ~> exited

\* C15: the second revision has exited after the deadline with a request
\* still in flight.
C15_Witness ==
  exited /\ rev = 2 /\ mpc = "return" /\ ~AllIdle

\* C16: the process does not exit while a request accepted before the
\* shutdown is still being served, unless Shutdown has returned, which with
\* a request in flight means that the drain's deadline has passed.
C16_InFlightMayFinish == (exited /\ ~AllIdle) => mpc = "return"

\* C17: whenever the drain has started (the listener is closed, the shutdown
\* path is in or past Shutdown) shutdownCh is closed.
C17_CloseBeforeDrain ==
  (srv = "closed" \/ mpc \in {"drain", "return"}) => shutdownCh = "closed"

\* C17: the drain waits for a request in flight.
C17_Witness ==
  srv = "closed" /\ mpc = "drain" /\ ~AllIdle /\ ~exited

\* C18: a unit that writes output does not hold the mutex: a handler about
\* to write its response and the Reporter about to print its status line
\* are outside their critical sections.
C18_NoOutputUnderLock ==
  /\ \A h \in Handlers : frame[h].pc = "respond" => mu # h
  /\ rpc = "print" => mu # Reporter

\* C19: every step of the Reporter, its termination included, leaves
\* entries and the counter as they are; and while the Reporter holds the
\* lock after its two reads, the pair it will print is the Store's counter
\* and number of keys of that instant.
C19_ReporterOnlyReads ==
  [][ /\ rpc' # rpc => (data' = data /\ requests' = requests)
      /\ (mu' = Reporter /\ rpc' \in {"unlock", "print"}) =>
            (rlocal'.req = requests' /\ rlocal'.size = MapLen(data')) ]_vars

\* C19: the Reporter is about to print a pair that counts one request and
\* one key.
C19_Witness ==
  rpc = "print" /\ rlocal.req = 1 /\ rlocal.size = 1

\* The statements that read or write data or requests, and the labels of
\* s.mu.Lock() and s.mu.Unlock().
Touches == {"inc_load", "inc_store", "merge", "copy", "lookup", "read_req", "read_size"}
LockLabels == {"lock", "inc_lock"}
UnlockLabels == {"unlock", "inc_unlock"}

\* Label pc of program p lies after a Lock and not after that Lock's Unlock:
\* the unit has acquired the mutex and not released it yet.
Inside(p, pc) ==
  \E i \in 1..Len(p) :
    /\ p[i] = pc
    /\ \E j \in 1..(i - 1) :
         /\ p[j] \in LockLabels
         /\ \A k \in j..(i - 1) : p[k] \notin UnlockLabels

HandlerInside(h) ==
  frame[h].fn # "none" /\ Inside(Prog(rev, frame[h].fn), frame[h].pc)

ReporterInside == Inside(RProg(rev), rpc)

\* C20: at most one unit is inside a critical section; a unit at a statement
\* that reads or writes data or requests is inside one; the mutex is held
\* exactly by the unit that is inside, so it is never left locked by a unit
\* that has gone on; and a handler or the Reporter waiting in Lock gets past
\* it.
C20_LockDiscipline ==
  /\ [](/\ Cardinality({h \in Handlers : HandlerInside(h)}) + (IF ReporterInside THEN 1 ELSE 0) <= 1
        /\ \A h \in Handlers : frame[h].pc \in Touches => HandlerInside(h)
        /\ rpc \in Touches => ReporterInside
        /\ \A h \in Handlers : HandlerInside(h) <=> mu = h
        /\ ReporterInside <=> mu = Reporter)
  /\ \A h \in Handlers :
        (frame[h].pc \in LockLabels) ~> (frame[h].pc \notin LockLabels)
  /\ (rpc \in LockLabels) ~> (rpc \notin LockLabels)

\* C20: a handler and the Reporter wait in Lock while the other handler is
\* inside its critical section.
C20_Witness ==
  \E h, g \in Handlers :
    /\ frame[h].pc \in LockLabels
    /\ HandlerInside(g) /\ mu = g
    /\ rpc = "lock"

====
